---- MODULE Spec2Model ----
(***************************************************************************)
(* Model of the periodic aggregation subsystem of profiler.hpp:            *)
(* AverageTimerManager (the two label-keyed sample maps with their         *)
(* mutexes, the epoch start, the two logging loops and their start         *)
(* operations) together with the caller threads that insert samples and    *)
(* request manual reports.                                                 *)
(*                                                                         *)
(* Granularity: one step per statement that synchronises.  A lock_guard    *)
(* acquisition is a step of its own.  An insert sees the map as it is when  *)
(* its lock is taken and writes the map back in the step that releases the *)
(* lock, so that mutual exclusion (and not the step size of the model) is  *)
(* what makes an insert atomic.                                            *)
(***************************************************************************)
EXTENDS Integers, Sequences, FiniteSets, TLC

\* ---------------------------------------------------------------- bounds
\* Number of samples that the two maps hold together (inserts under way included).
MaxSamples == 2
\* Instants that profilerClock::now() may return (the time source is injected).
Instants == {1, 2}

\* Caller-chosen labels, in the order std::map<std::string, ...> iterates.
LabelOrder == <<"a", "b">>
Labels == {LabelOrder[i] : i \in 1..Len(LabelOrder)}
\* Values of profilerClock::duration handed to the add operations; a stop()
\* taken across a clock swap may be negative.
Durations == {-3, 2}

\* Threads that insert samples and request manual reports.
Callers == {<<"caller", 1>>, <<"caller", 2>>}
\* The std::thread objects that start operations construct; each start
\* operation constructs one, so a behaviour holds at most two start operations.
LoopThreads == {<<"loop", 1>>, <<"loop", 2>>}
Threads == Callers \cup LoopThreads
NoThread == <<"none", 0>>
Modes == {"average", "cumulative"}

\* Both sleep intervals start as std::chrono::seconds(1), here in milliseconds.
DefaultSleepDuration == 1000
\* Values that the sleep-interval setters assign (demo.cpp assigns 500 ms).
SleepDurations == {500, DefaultSleepDuration}
\* Streams that the sink setter assigns: &std::cout and the address of a file stream.
Sinks == {"cout", "file"}

VARIABLES
    collectedAverageTimesMap,         \* label -> sequence of durations
    collectedAverageTimesMapMutex,    \* the thread that holds it, or NoThread
    collectedCumulativeTimesMap,      \* decorated label -> sequence of durations
    collectedCumulativeTimesMapMutex, \* the thread that holds it, or NoThread
    profilerStartTime,                \* the epoch start
    startTimeSet,
    loggingEnabled,
    pc,                               \* position of every thread; of a logging thread also
                                      \* "none" (not constructed) and "threw" (its constructor threw)
    frame,                            \* locals of every thread
    history,                          \* ghost: per key, the samples inserted since the map was last cleared
    defaultAverageTimerSleepDuration,    \* sleep interval of the average loop
    defaultCumulativeTimerSleepDuration, \* sleep interval of the cumulative loop
    defaultProfilerOutputStream          \* the sink the default formatters write to

\* The configuration slots that the setter macros assign.
config == <<defaultAverageTimerSleepDuration, defaultCumulativeTimerSleepDuration,
            defaultProfilerOutputStream>>

vars == <<collectedAverageTimesMap, collectedAverageTimesMapMutex,
          collectedCumulativeTimesMap, collectedCumulativeTimesMapMutex,
          profilerStartTime, startTimeSet, loggingEnabled, pc, frame,
          history, config>>

\* ------------------------------------------------------- pure operations

\* addCumulativeTime: id + " (cumulative)".
CumulativeKey(id) == id \o " (cumulative)"

\* Variant: addCumulativeTime stores under the caller's label as it is.
KeyOfPlain(mode, id) == id

\* The key an add operation of a mode stores under.
KeyOf(mode, id) == IF mode = "average" THEN id ELSE CumulativeKey(id)

\* All keys, in std::map (lexicographic) order: "a" < "a (cumulative)" < "b".
KeyOrder ==
    [i \in 1..(2 * Len(LabelOrder)) |->
        IF i % 2 = 1 THEN LabelOrder[(i + 1) \div 2]
                     ELSE CumulativeKey(LabelOrder[i \div 2])]
AllKeys == {KeyOrder[i] : i \in 1..Len(KeyOrder)}
KeysOfMode(mode) == {KeyOf(mode, id) : id \in Labels}

\* A default-constructed std::map.
EmptyMap == [k \in {} |-> <<>>]

\* std::map::operator[]: the mapped vector, default-constructed when absent.
At(map, id) == IF id \in DOMAIN map THEN map[id] ELSE <<>>

\* std::vector::push_back.
PushBack(vec, t) == Append(vec, t)

\* The map after the vector under id has been written.
Put(map, id, vec) ==
    [k \in (DOMAIN map) \cup {id} |-> IF k = id THEN vec ELSE map[k]]

\* Variant: clears every vector and keeps the keys.
MapClearVectors(map) == [k \in DOMAIN map |-> <<>>]

\* std::map::clear.
MapClear(map) == EmptyMap

\* for(auto& t : p.second) total += t;
RECURSIVE Total(_)
Total(vec) == IF vec = <<>> THEN 0 ELSE vec[1] + Total(Tail(vec))

\* Integer division of duration::rep (long long): truncation towards zero.
TruncDiv(a, n) == IF a >= 0 THEN a \div n ELSE -((-a) \div n)

\* Variant: division that rounds towards minus infinity.
AverageOutcomesFloor(vec) == {Total(vec) \div Len(vec)}

\* avg /= p.second.size().  Division by a size of 0 is undefined behaviour:
\* any of the values below may come out.
AverageOutcomes(vec) ==
    IF Len(vec) = 0 THEN Durations \cup {0}
                    ELSE {TruncDiv(Total(vec), Len(vec))}

\* The aggregate a report of a mode passes to the value formatter.
Aggregates(mode, vec) ==
    IF mode = "average" THEN AverageOutcomes(vec) ELSE {Total(vec)}

\* Variant: a lock that excludes nobody.
MutexFreeAlways(mutex) == TRUE

\* std::mutex: lock() returns only when no thread holds the mutex.
MutexFree(mutex) == mutex = NoThread

\* The map iterator: index in KeyOrder of the first key after pos, 0 at end().
NextPos(map, pos) ==
    LET rest == {i \in (pos + 1)..Len(KeyOrder) : KeyOrder[i] \in DOMAIN map}
    IN IF rest = {} THEN 0 ELSE CHOOSE i \in rest : \A j \in rest : i <= j

\* Variant: the start operation sets the epoch start unconditionally.
EnableStartTimeAlways(set, start, clock) == clock

\* if(!startTimeSet) setStartTime(profilerClock::now());
EnableStartTime(set, start, clock) == IF ~set THEN clock ELSE start

\* std::thread::joinable() of a thread object whose constructor returned.
Joinable(constructed) == constructed

\* Variant: both loops sleep for the average interval.
SleepDurationOfAverage(mode) == defaultAverageTimerSleepDuration

\* The interval that the loop of a mode hands to sleep_for.
SleepDurationOf(mode) ==
    IF mode = "average" THEN defaultAverageTimerSleepDuration
                        ELSE defaultCumulativeTimerSleepDuration

\* Timer::stop(): profilerClock::now() - begin.
TimerStop(begin, clock) == clock - begin

\* The three scoped wrappers.
Wrappers == {"AverageTimer", "ScopeTimer", "CumulativeTimer"}

\* Variant: ~CumulativeTimer calls addAverageTime.
WrapperModeAverage(kind) == IF kind = "ScopeTimer" THEN "none" ELSE "average"

\* The add operation that the destructor of a wrapper calls: addAverageTime,
\* addCumulativeTime, or none (ScopeTimer calls the value formatter).
WrapperMode(kind) ==
    CASE kind = "AverageTimer" -> "average"
      [] kind = "CumulativeTimer" -> "cumulative"
      [] OTHER -> "none"

\* ------------------------------------------------------------- plumbing

MapOf(mode) ==
    IF mode = "average" THEN collectedAverageTimesMap
                        ELSE collectedCumulativeTimesMap

MutexOf(mode) ==
    IF mode = "average" THEN collectedAverageTimesMapMutex
                        ELSE collectedCumulativeTimesMapMutex

SetMap(mode, map) ==
    /\ collectedAverageTimesMap' =
           IF mode = "average" THEN map ELSE collectedAverageTimesMap
    /\ collectedCumulativeTimesMap' =
           IF mode = "cumulative" THEN map ELSE collectedCumulativeTimesMap

\* Variant: the mutex is locked and never unlocked.
SetMutexNoUnlock(mode, holder) ==
    /\ collectedAverageTimesMapMutex' =
           IF mode = "average" /\ holder # NoThread
           THEN holder ELSE collectedAverageTimesMapMutex
    /\ collectedCumulativeTimesMapMutex' =
           IF mode = "cumulative" /\ holder # NoThread
           THEN holder ELSE collectedCumulativeTimesMapMutex

SetMutex(mode, holder) ==
    /\ collectedAverageTimesMapMutex' =
           IF mode = "average" THEN holder ELSE collectedAverageTimesMapMutex
    /\ collectedCumulativeTimesMapMutex' =
           IF mode = "cumulative" THEN holder ELSE collectedCumulativeTimesMapMutex

\* mode, map, pos: the operation under way, the map as the insert found it,
\* the iterator of a report.  out, sinks: the formatter calls a report or a
\* ScopeTimer has made, and the stream each of them wrote its line to.
\* rtime: the argument of the sleep_for under way.  wrapper, id, begin: the
\* scoped wrapper alive on the thread's stack with its members; arg: the
\* duration its destructor hands on.
IdleFrame ==
    [mode |-> "none", map |-> EmptyMap, pos |-> 0, out |-> <<>>, sinks |-> <<>>,
     rtime |-> 0, wrapper |-> "none", id |-> "", begin |-> 0, arg |-> 0]

\* The two calls a report makes per label.
InfoCall(start) == <<"info", "", start>>
ValueCall(key, t) == <<"value", key, t>>

\* Variant: the value formatter is called before the epoch-info formatter.
ReportCallsValueFirst(start, key, agg) == <<ValueCall(key, agg), InfoCall(start)>>

\* The formatter calls of one iteration of a report, in order.
ReportCalls(start, key, agg) == <<InfoCall(start), ValueCall(key, agg)>>

\* Variant: the formatters write to std::cout.
StreamWrittenCout(stream) == "cout"

\* *defaultProfilerOutputStream << ...: the stream a formatter writes its line
\* to, given the pointer it loads when it is called.
StreamWritten(stream) == stream

\* Ghost: a report has read every sample stored under key.
Seen(h, key) ==
    [h EXCEPT ![key] = [i \in 1..Len(h[key]) |-> [h[key][i] EXCEPT !.seen = TRUE]]]

\* Number of samples in a map.
RECURSIVE Size(_)
Size(map) ==
    IF DOMAIN map = {} THEN 0
    ELSE LET k == CHOOSE k \in DOMAIN map : TRUE
         IN Len(map[k]) + Size([j \in (DOMAIN map) \ {k} |-> map[j]])

\* Samples stored, and samples whose insert is under way.
Stored ==
    Size(collectedAverageTimesMap) + Size(collectedCumulativeTimesMap)
        + Cardinality({th \in Callers : pc[th] = "add_push"})

\* The std::thread objects that no start operation has constructed yet.
FreeSlots == {th \in LoopThreads : pc[th] = "none"}

\* The thread object the next start operation constructs.  Which free one it
\* is does not matter: the average loops take the lowest, the cumulative
\* loops the highest.
NewThread(mode) ==
    IF mode = "average"
    THEN CHOOSE th \in FreeSlots : \A o \in FreeSlots : th[2] <= o[2]
    ELSE CHOOSE th \in FreeSlots : \A o \in FreeSlots : th[2] >= o[2]

\* The loop of thread th is running.
Running(th) == pc[th] \in {"sleep", "log_iter", "clear"}

\* ----------------------------------------------------------------- Init

Init ==
    /\ collectedAverageTimesMap = EmptyMap
    /\ collectedAverageTimesMapMutex = NoThread
    /\ collectedCumulativeTimesMap = EmptyMap
    /\ collectedCumulativeTimesMapMutex = NoThread
    /\ profilerStartTime = 0
    /\ startTimeSet = FALSE
    /\ loggingEnabled = FALSE
    /\ pc = [th \in Threads |-> IF th \in Callers THEN "idle" ELSE "none"]
    /\ frame = [th \in Threads |-> IdleFrame]
    /\ history = [k \in AllKeys |-> <<>>]
    /\ defaultAverageTimerSleepDuration = DefaultSleepDuration
    /\ defaultCumulativeTimerSleepDuration = DefaultSleepDuration
    /\ defaultProfilerOutputStream = "cout"

\* ------------------------------------------------- configuration calls
\* The configuring thread (main in demo.cpp) makes these calls one at a time.

\* static void setStartTime(profilerClock::duration t)
setStartTime ==
    \E t \in Instants :
        /\ profilerStartTime' = t
        /\ startTimeSet' = TRUE
        /\ UNCHANGED <<config, collectedAverageTimesMap, collectedAverageTimesMapMutex,
                       collectedCumulativeTimesMap, collectedCumulativeTimesMapMutex,
                       loggingEnabled, pc, frame, history>>

\* Body shared by startAverageLoggingThread and startCumulativeLoggingThread.
\* th is the std::thread object t that the call constructs: the constructor
\* either returns with the loop running or throws std::system_error, which
\* nothing catches; loggingEnabled is never written.  The new thread's first
\* statement, the read of its sleep interval, is part of this step: the setters
\* touch nothing else, so a setter before this step stands for one in between.
StartLoggingThread(mode) ==
    /\ FreeSlots # {}
    /\ \E clock \in Instants :
          profilerStartTime' = EnableStartTime(startTimeSet, profilerStartTime, clock)
    /\ startTimeSet' = TRUE
    /\ IF loggingEnabled
       THEN UNCHANGED <<pc, frame>>
       ELSE \E constructed \in BOOLEAN :
               LET th == NewThread(mode) IN
               /\ pc' = [pc EXCEPT ![th] =
                            IF ~constructed THEN "threw"
                            ELSE IF Joinable(constructed) THEN "sleep"
                            ELSE "not_detached"]
               /\ frame' = [frame EXCEPT ![th] =
                               [IdleFrame EXCEPT !.mode = mode,
                                                 !.rtime = IF constructed
                                                           THEN SleepDurationOf(mode)
                                                           ELSE 0]]
    /\ UNCHANGED <<config, collectedAverageTimesMap, collectedAverageTimesMapMutex,
                   collectedCumulativeTimesMap, collectedCumulativeTimesMapMutex,
                   loggingEnabled, history>>

\* PF_SET_AVERAGE_TIMER_SLEEP_DURATION(x)
setAverageTimerSleepDuration ==
    \E x \in SleepDurations :
        /\ defaultAverageTimerSleepDuration' = x
        /\ UNCHANGED <<collectedAverageTimesMap, collectedAverageTimesMapMutex,
                       collectedCumulativeTimesMap, collectedCumulativeTimesMapMutex,
                       profilerStartTime, startTimeSet, loggingEnabled, pc, frame,
                       history, defaultCumulativeTimerSleepDuration,
                       defaultProfilerOutputStream>>

\* PF_SET_CUMULATIVE_TIMER_SLEEP_DURATION(x)
setCumulativeTimerSleepDuration ==
    \E x \in SleepDurations :
        /\ defaultCumulativeTimerSleepDuration' = x
        /\ UNCHANGED <<collectedAverageTimesMap, collectedAverageTimesMapMutex,
                       collectedCumulativeTimesMap, collectedCumulativeTimesMapMutex,
                       profilerStartTime, startTimeSet, loggingEnabled, pc, frame,
                       history, defaultAverageTimerSleepDuration,
                       defaultProfilerOutputStream>>

\* PF_SET_OUTPUT_STREAM(x)
setOutputStream ==
    \E x \in Sinks :
        /\ defaultProfilerOutputStream' = x
        /\ UNCHANGED <<collectedAverageTimesMap, collectedAverageTimesMapMutex,
                       collectedCumulativeTimesMap, collectedCumulativeTimesMapMutex,
                       profilerStartTime, startTimeSet, loggingEnabled, pc, frame,
                       history, defaultAverageTimerSleepDuration,
                       defaultCumulativeTimerSleepDuration>>

\* static void startAverageLoggingThread()
startAverageLoggingThread == StartLoggingThread("average")

\* static void startCumulativeLoggingThread()
startCumulativeLoggingThread == StartLoggingThread("cumulative")

\* --------------------------------------------------------------- inserts

\* lock_guard of an add operation: from here on the thread works on the map
\* as it found it.
AddLock(th, mode) ==
    /\ pc[th] = "idle"
    /\ Stored < MaxSamples
    /\ MutexFree(MutexOf(mode))
    /\ SetMutex(mode, th)
    /\ pc' = [pc EXCEPT ![th] = "add_push"]
    /\ frame' = [frame EXCEPT ![th] =
                    [IdleFrame EXCEPT !.mode = mode, !.map = MapOf(mode)]]
    /\ UNCHANGED <<config, collectedAverageTimesMap, collectedCumulativeTimesMap,
                   profilerStartTime, startTimeSet, loggingEnabled, history>>

\* map[key].push_back(t), and the lock_guard's release on return.
AddPush(th, mode, id, t) ==
    /\ pc[th] = "add_push"
    /\ frame[th].mode = mode
    /\ LET key == KeyOf(mode, id) IN
       /\ SetMap(mode, Put(frame[th].map, key, PushBack(At(frame[th].map, key), t)))
       /\ history' = [history EXCEPT ![key] = Append(@, [t |-> t, seen |-> FALSE])]
    /\ SetMutex(mode, NoThread)
    /\ pc' = [pc EXCEPT ![th] = "idle"]
    /\ frame' = [frame EXCEPT ![th] = IdleFrame]
    /\ UNCHANGED <<config, profilerStartTime, startTimeSet, loggingEnabled>>

\* static void addAverageTime(const std::string& id, profilerClock::duration t)
addAverageTimeLock(th) == AddLock(th, "average")

addAverageTimePush(th) ==
    \E id \in Labels, t \in Durations : AddPush(th, "average", id, t)

\* static void addCumulativeTime(const std::string& id, profilerClock::duration t)
addCumulativeTimeLock(th) == AddLock(th, "cumulative")

addCumulativeTimePush(th) ==
    \E id \in Labels, t \in Durations : AddPush(th, "cumulative", id, t)

\* ------------------------------------------------------ scoped wrappers

\* AverageTimer / ScopeTimer / CumulativeTimer constructor: id(_id), t.start().
WrapperEnter(th, kind, id) ==
    /\ pc[th] = "idle"
    /\ pc' = [pc EXCEPT ![th] = "scope"]
    /\ \E clock \in Instants :
          frame' = [frame EXCEPT ![th] =
                       [IdleFrame EXCEPT !.wrapper = kind, !.id = id, !.begin = clock]]
    /\ UNCHANGED <<config, collectedAverageTimesMap, collectedAverageTimesMapMutex,
                   collectedCumulativeTimesMap, collectedCumulativeTimesMapMutex,
                   profilerStartTime, startTimeSet, loggingEnabled, history>>

\* ~AverageTimer / ~CumulativeTimer: t.stop(), and the lock_guard of the add
\* operation that the destructor calls with (id, t.stop()).
WrapperExitLock(th) ==
    /\ pc[th] = "scope"
    /\ WrapperMode(frame[th].wrapper) \in Modes
    /\ Stored < MaxSamples
    /\ LET mode == WrapperMode(frame[th].wrapper) IN
       /\ MutexFree(MutexOf(mode))
       /\ SetMutex(mode, th)
       /\ \E clock \in Instants :
             frame' = [frame EXCEPT ![th].mode = mode,
                                    ![th].map = MapOf(mode),
                                    ![th].arg = TimerStop(frame[th].begin, clock)]
    /\ pc' = [pc EXCEPT ![th] = "add_push"]
    /\ UNCHANGED <<config, collectedAverageTimesMap, collectedCumulativeTimesMap,
                   profilerStartTime, startTimeSet, loggingEnabled, history>>

\* The push_back and return of that add operation; the destructor returns.
WrapperExitPush(th) ==
    /\ frame[th].wrapper # "none"
    /\ AddPush(th, frame[th].mode, frame[th].id, frame[th].arg)

\* ~ScopeTimer: defaultProfilerOutputFunction(id, t.stop()).
ScopeTimerExit(th) ==
    /\ pc[th] = "scope"
    /\ WrapperMode(frame[th].wrapper) = "none"
    /\ pc' = [pc EXCEPT ![th] = "scope_out"]
    /\ \E clock \in Instants :
          frame' = [frame EXCEPT
                       ![th].out = Append(@, ValueCall(frame[th].id,
                                                       TimerStop(frame[th].begin, clock))),
                       ![th].sinks = Append(@, StreamWritten(defaultProfilerOutputStream))]
    /\ UNCHANGED <<config, collectedAverageTimesMap, collectedAverageTimesMapMutex,
                   collectedCumulativeTimesMap, collectedCumulativeTimesMapMutex,
                   profilerStartTime, startTimeSet, loggingEnabled, history>>

\* The formatter has returned; ~ScopeTimer returns.
ScopeTimerReturn(th) ==
    /\ pc[th] = "scope_out"
    /\ pc' = [pc EXCEPT ![th] = "idle"]
    /\ frame' = [frame EXCEPT ![th] = IdleFrame]
    /\ UNCHANGED <<config, collectedAverageTimesMap, collectedAverageTimesMapMutex,
                   collectedCumulativeTimesMap, collectedCumulativeTimesMapMutex,
                   profilerStartTime, startTimeSet, loggingEnabled, history>>

\* PF_AVERAGE_TIMER(x), PF_SCOPE_TIMER(x), PF_CUMULATIVE_TIMER(x)
AverageTimerEnter(th) == \E id \in Labels : WrapperEnter(th, "AverageTimer", id)
ScopeTimerEnter(th) == \E id \in Labels : WrapperEnter(th, "ScopeTimer", id)
CumulativeTimerEnter(th) == \E id \in Labels : WrapperEnter(th, "CumulativeTimer", id)

\* --------------------------------------------------------------- reports

\* lock_guard of averageLog / cumulativeLog; from is where the caller stands.
LogLock(th, mode, from) ==
    /\ pc[th] = from
    /\ MutexFree(MutexOf(mode))
    /\ SetMutex(mode, th)
    /\ pc' = [pc EXCEPT ![th] = "log_iter"]
    /\ frame' = [frame EXCEPT ![th] = [IdleFrame EXCEPT !.mode = mode]]
    /\ UNCHANGED <<config, collectedAverageTimesMap, collectedCumulativeTimesMap,
                   profilerStartTime, startTimeSet, loggingEnabled, history>>

\* One iteration of for(auto& p : map): the aggregate of p.second, then the
\* epoch-info formatter and the value formatter.  One step: while no setter
\* runs, nothing that the value formatter reads can change between the calls.
LogStep(th, mode) ==
    /\ pc[th] = "log_iter"
    /\ frame[th].mode = mode
    /\ LET pos == NextPos(MapOf(mode), frame[th].pos) IN
       /\ pos # 0
       /\ \E agg \in Aggregates(mode, MapOf(mode)[KeyOrder[pos]]) :
             frame' = [frame EXCEPT
                          ![th].pos = pos,
                          ![th].out = @ \o ReportCalls(profilerStartTime, KeyOrder[pos], agg),
                          ![th].sinks = @ \o <<StreamWritten(defaultProfilerOutputStream),
                                               StreamWritten(defaultProfilerOutputStream)>>]
       /\ history' = Seen(history, KeyOrder[pos])
    /\ UNCHANGED <<config, collectedAverageTimesMap, collectedAverageTimesMapMutex,
                   collectedCumulativeTimesMap, collectedCumulativeTimesMapMutex,
                   profilerStartTime, startTimeSet, loggingEnabled, pc>>

\* The same iteration in two steps, for behaviours in which a setter runs
\* between the two formatter calls.  First
\* defaultAverageTimerInfoOutputFunction(profilerStartTime) is called ...
LogInfo(th, mode) ==
    /\ pc[th] = "log_iter"
    /\ frame[th].mode = mode
    /\ Len(frame[th].out) % 2 = 0
    /\ NextPos(MapOf(mode), frame[th].pos) # 0
    /\ frame' = [frame EXCEPT
                    ![th].out = Append(@, InfoCall(profilerStartTime)),
                    ![th].sinks = Append(@, StreamWritten(defaultProfilerOutputStream))]
    /\ UNCHANGED <<config, collectedAverageTimesMap, collectedAverageTimesMapMutex,
                   collectedCumulativeTimesMap, collectedCumulativeTimesMapMutex,
                   profilerStartTime, startTimeSet, loggingEnabled, pc, history>>

\* ... then the value formatter is called with (p.first, aggregate); the
\* aggregate is a function of the vector, which the lock keeps as it is.
LogValue(th, mode) ==
    /\ pc[th] = "log_iter"
    /\ frame[th].mode = mode
    /\ Len(frame[th].out) % 2 = 1
    /\ LET pos == NextPos(MapOf(mode), frame[th].pos) IN
       /\ \E agg \in Aggregates(mode, MapOf(mode)[KeyOrder[pos]]) :
             frame' = [frame EXCEPT
                          ![th].pos = pos,
                          ![th].out = Append(@, ValueCall(KeyOrder[pos], agg)),
                          ![th].sinks = Append(@, StreamWritten(defaultProfilerOutputStream))]
       /\ history' = Seen(history, KeyOrder[pos])
    /\ UNCHANGED <<config, collectedAverageTimesMap, collectedAverageTimesMapMutex,
                   collectedCumulativeTimesMap, collectedCumulativeTimesMapMutex,
                   profilerStartTime, startTimeSet, loggingEnabled, pc>>

\* The iterator reached end(): the lock_guard is released and the report
\* returns, to a caller or into the loop (which goes on to clear the map).
LogReturn(th, mode) ==
    /\ pc[th] = "log_iter"
    /\ frame[th].mode = mode
    /\ NextPos(MapOf(mode), frame[th].pos) = 0
    /\ SetMutex(mode, NoThread)
    /\ pc' = [pc EXCEPT ![th] = IF th \in Callers THEN "idle" ELSE "clear"]
    /\ frame' = [frame EXCEPT ![th] =
                    IF th \in Callers THEN IdleFrame
                                      ELSE [IdleFrame EXCEPT !.mode = mode]]
    /\ UNCHANGED <<config, collectedAverageTimesMap, collectedCumulativeTimesMap,
                   profilerStartTime, startTimeSet, loggingEnabled, history>>

\* static void averageLog(), called by a caller thread (PF_AVERAGE_TIMER_LOG)
averageLogLock(th) == LogLock(th, "average", "idle")
averageLogStep(th) == LogStep(th, "average")
averageLogReturn(th) == LogReturn(th, "average")

\* static void cumulativeLog(), called by a caller thread (PF_CUMULATIVE_TIMER_LOG)
cumulativeLogLock(th) == LogLock(th, "cumulative", "idle")
cumulativeLogStep(th) == LogStep(th, "cumulative")
cumulativeLogReturn(th) == LogReturn(th, "cumulative")

\* ----------------------------------------------------------------- loops

\* Variant: the loop begins a new epoch when it has cleared the map.
LoopClearNewEpoch(th, mode) ==
    /\ pc[th] = "clear"
    /\ frame[th].mode = mode
    /\ MutexFree(MutexOf(mode))
    /\ SetMap(mode, MapClear(MapOf(mode)))
    /\ history' = [k \in AllKeys |->
                      IF k \in KeysOfMode(mode) THEN <<>> ELSE history[k]]
    /\ pc' = [pc EXCEPT ![th] = "sleep"]
    /\ frame' = [frame EXCEPT ![th].rtime = SleepDurationOf(mode)]
    /\ \E clock \in Instants : profilerStartTime' = clock
    /\ UNCHANGED <<config, collectedAverageTimesMapMutex, collectedCumulativeTimesMapMutex,
                   startTimeSet, loggingEnabled>>

\* The loop's own lock_guard, map.clear(), the release at the end of the
\* loop body, and the next iteration's read of the sleep interval.
LoopClear(th, mode) ==
    /\ pc[th] = "clear"
    /\ frame[th].mode = mode
    /\ MutexFree(MutexOf(mode))
    /\ SetMap(mode, MapClear(MapOf(mode)))
    /\ history' = [k \in AllKeys |->
                      IF k \in KeysOfMode(mode) THEN <<>> ELSE history[k]]
    /\ pc' = [pc EXCEPT ![th] = "sleep"]
    /\ frame' = [frame EXCEPT ![th].rtime = SleepDurationOf(mode)]
    /\ UNCHANGED <<config, collectedAverageTimesMapMutex, collectedCumulativeTimesMapMutex,
                   profilerStartTime, startTimeSet, loggingEnabled>>

\* static void averageLogLoop()
\* sleep_for returns and averageLog() takes its lock_guard.
averageLogLoopLog(th) == frame[th].mode = "average" /\ LogLock(th, "average", "sleep")
averageLogLoopClear(th) == LoopClear(th, "average")

\* static void cumulativeLogLoop()
\* sleep_for returns and cumulativeLog() takes its lock_guard.
cumulativeLogLoopLog(th) == frame[th].mode = "cumulative" /\ LogLock(th, "cumulative", "sleep")
cumulativeLogLoopClear(th) == LoopClear(th, "cumulative")

\* ------------------------------------------------------------------ Next

Next ==
    \/ setStartTime
    \/ startAverageLoggingThread
    \/ startCumulativeLoggingThread
    \/ \E th \in Callers :
          \/ addAverageTimeLock(th)
          \/ addAverageTimePush(th)
          \/ addCumulativeTimeLock(th)
          \/ addCumulativeTimePush(th)
          \/ averageLogLock(th)
          \/ cumulativeLogLock(th)
    \/ \E th \in Threads :
          \/ averageLogStep(th)
          \/ averageLogReturn(th)
          \/ cumulativeLogStep(th)
          \/ cumulativeLogReturn(th)
    \/ \E th \in LoopThreads :
          \/ averageLogLoopLog(th)
          \/ averageLogLoopClear(th)
          \/ cumulativeLogLoopLog(th)
          \/ cumulativeLogLoopClear(th)

Spec == Init /\ [][Next]_vars

\* ----------------------------------------------- further specifications
\* Spec is the program under clients that add and report and never
\* reconfigure.  The specifications below are the program under clients that
\* also reassign a configuration slot (as main in demo.cpp does) or that
\* measure with the scoped wrappers.
Client == <<"caller", 1>>

\* The start operations and the steps of the loops, a report iteration being
\* one step.
Loops ==
    \/ startAverageLoggingThread
    \/ startCumulativeLoggingThread
    \/ \E th \in LoopThreads :
          \/ averageLogLoopLog(th)
          \/ averageLogStep(th)
          \/ averageLogReturn(th)
          \/ averageLogLoopClear(th)
          \/ cumulativeLogLoopLog(th)
          \/ cumulativeLogStep(th)
          \/ cumulativeLogReturn(th)
          \/ cumulativeLogLoopClear(th)

\* The client changes the sleep intervals.
NextSleep ==
    \/ setAverageTimerSleepDuration
    \/ setCumulativeTimerSleepDuration
    \/ addAverageTimeLock(Client)
    \/ addAverageTimePush(Client)
    \/ addCumulativeTimeLock(Client)
    \/ addCumulativeTimePush(Client)
    \/ Loops

SpecSleep == Init /\ [][NextSleep]_vars

\* The client changes the sink while it adds, measures with ScopeTimer and
\* requests manual reports, and average loops run; every formatter call is a
\* step of its own.
NextSink ==
    \/ setOutputStream
    \/ startAverageLoggingThread
    \/ ScopeTimerEnter(Client)
    \/ ScopeTimerExit(Client)
    \/ ScopeTimerReturn(Client)
    \/ addAverageTimeLock(Client)
    \/ addAverageTimePush(Client)
    \/ averageLogLock(Client)
    \/ \E th \in Threads :
          \/ LogInfo(th, "average")
          \/ LogValue(th, "average")
          \/ averageLogReturn(th)
    \/ \E th \in LoopThreads :
          \/ averageLogLoopLog(th)
          \/ averageLogLoopClear(th)

SpecSink == Init /\ [][NextSink]_vars

\* Two threads measure with the scoped wrappers and request manual reports.
NextWrappers ==
    \E th \in Callers :
        \/ AverageTimerEnter(th)
        \/ ScopeTimerEnter(th)
        \/ CumulativeTimerEnter(th)
        \/ WrapperExitLock(th)
        \/ WrapperExitPush(th)
        \/ ScopeTimerExit(th)
        \/ ScopeTimerReturn(th)
        \/ averageLogLock(th)
        \/ averageLogStep(th)
        \/ averageLogReturn(th)
        \/ cumulativeLogLock(th)
        \/ cumulativeLogStep(th)
        \/ cumulativeLogReturn(th)

SpecWrappers == Init /\ [][NextWrappers]_vars

\* The std::system_error of a start operation reaches a client that does not
\* catch it (main in demo.cpp has no try block): std::terminate ends the
\* process, and with it every thread.
Terminate ==
    /\ \E th \in LoopThreads : pc[th] = "threw"
    /\ pc' = [th \in Threads |-> "terminated"]
    /\ UNCHANGED <<config, collectedAverageTimesMap, collectedAverageTimesMapMutex,
                   collectedCumulativeTimesMap, collectedCumulativeTimesMapMutex,
                   profilerStartTime, startTimeSet, loggingEnabled, frame, history>>

\* The steps of the average loop of thread th.
averageLogLoop(th) ==
    \/ averageLogLoopLog(th)
    \/ averageLogStep(th)
    \/ averageLogReturn(th)
    \/ averageLogLoopClear(th)

\* The steps that complete an operation which the client has begun.
ClientCompletes ==
    \/ addAverageTimePush(Client)
    \/ averageLogStep(Client)
    \/ averageLogReturn(Client)

\* The average mode with a client that adds and requests manual reports for
\* as long as it likes.
NextLive ==
    \/ startAverageLoggingThread
    \/ Terminate
    \/ addAverageTimeLock(Client)
    \/ averageLogLock(Client)
    \/ ClientCompletes
    \/ \E th \in LoopThreads : averageLogLoop(th)

\* The scheduler lets every thread that can take a step take one eventually.
\* A thread that waits for a std::mutex can take a step only while the mutex
\* is free, and std::mutex does not promise that a waiting thread gets it.
Fairness ==
    /\ WF_vars(ClientCompletes)
    /\ \A th \in LoopThreads : WF_vars(averageLogLoop(th))

SpecLive == Init /\ [][NextLive]_vars /\ Fairness

\* ================================================================ claims

\* Durations of the samples inserted under a key since its map was cleared.
Inserted(key) == [i \in 1..Len(history[key]) |-> history[key][i].t]

RECURSIVE SumOf(_)
SumOf(seq) == IF seq = <<>> THEN 0 ELSE seq[1] + SumOf(Tail(seq))

\* q is s divided by n, rounded towards zero.
IsQuotient(q, s, n) ==
    /\ n > 0
    /\ IF s >= 0 THEN q * n <= s /\ s < (q + 1) * n
                 ELSE q * n >= s /\ s > (q - 1) * n

\* Thread th makes the step of a report that aggregates one more key.
Reads(th) ==
    pc[th] = "log_iter" /\ pc'[th] = "log_iter" /\ frame'[th].pos # frame[th].pos
KeyRead(th) == KeyOrder[frame'[th].pos]
ValueRead(th) == frame'[th].out[Len(frame'[th].out)][3]

\* The map of a mode after the step.
MapAfter(mode) ==
    IF mode = "average" THEN collectedAverageTimesMap'
                        ELSE collectedCumulativeTimesMap'

\* The keys for which a report has called the value formatter so far.
Reported(th) ==
    {frame[th].out[i][2] : i \in {j \in 1..Len(frame[th].out) : frame[th].out[j][1] = "value"}}

\* C1: no insert is lost.  Whenever a loop clears its map, every sample that
\* the clear removes has been read by a report cycle before.
C1_NoInsertLost ==
    [][\A th \in LoopThreads :
          (pc[th] = "clear" /\ pc'[th] = "sleep")
              => \A k \in KeysOfMode(frame[th].mode) :
                     \A i \in 1..Len(history[k]) : history[k][i].seen]_vars

\* C2: no insert is duplicated.  Whenever a report cycle (of a loop or a
\* manual one) aggregates the samples of a key, none of these samples has been
\* aggregated by an earlier report cycle.
C2_NoInsertDuplicated ==
    [][\A th \in Threads :
          Reads(th) => \A i \in 1..Len(history[KeyRead(th)]) :
                           ~history[KeyRead(th)][i].seen]_vars

\* C3: at most one background loop per mode runs, in every reachable state.
C3_AtMostOneLoopPerMode ==
    \A m \in Modes :
        Cardinality({th \in LoopThreads : Running(th) /\ frame[th].mode = m}) <= 1

\* C4: a manual report is a drain.  When averageLog or cumulativeLog returns to
\* a caller, no key it has reported is left in the Sample Set.
C4_ManualReportDrains ==
    [][\A th \in Callers :
          (pc[th] = "log_iter" /\ pc'[th] = "idle")
              => Reported(th) \cap DOMAIN MapAfter(frame[th].mode) = {}]_vars

C6_CumulativeIsSumOnce ==
    [][\A th \in Threads :
          (Reads(th) /\ frame[th].mode = "cumulative") =>
              /\ ValueRead(th) = SumOf(Inserted(KeyRead(th)))
              /\ \E i \in 1..Len(history[KeyRead(th)]) :
                    ~history[KeyRead(th)][i].seen]_vars

\* C7: no lost updates among concurrent inserts.  In every reachable state the
\* average map holds, under every label, exactly the durations that the
\* addAverageTime calls completed since the last clear have inserted, each
\* once.
C7_NoLostUpdates ==
    \A k \in Labels : At(collectedAverageTimesMap, k) = Inserted(k)

\* C7 witness: two inserts under one label have completed and a report has
\* folded both into the mean it passed.
C7_Witness ==
    /\ At(collectedAverageTimesMap, "a") = <<2, -3>>
    /\ \E th \in Threads :
          /\ pc[th] = "log_iter" /\ frame[th].mode = "average"
          /\ frame[th].out = <<InfoCall(profilerStartTime), ValueCall("a", 0)>>

\* C8: every key of either map maps to at least one sample, in every
\* reachable state.
C8_NoEmptySampleList ==
    \A m \in Modes : \A k \in DOMAIN MapOf(m) : Len(MapOf(m)[k]) >= 1

\* C8 witness: a loop is about to clear a map that holds samples while a
\* manual report of the same mode has divided by a sample count.
C8_Witness ==
    \E l \in LoopThreads, c \in Callers :
        /\ pc[l] = "clear" /\ frame[l].mode = "average"
        /\ pc[c] = "log_iter" /\ frame[c].mode = "average"
        /\ Reported(c) # {}

C10_EpochStartWrites ==
    [][/\ (startAverageLoggingThread \/ startCumulativeLoggingThread) =>
              /\ startTimeSet => profilerStartTime' = profilerStartTime
              /\ ~startTimeSet => profilerStartTime' \in Instants
              /\ startTimeSet'
       /\ setStartTime => profilerStartTime' \in Instants /\ startTimeSet'
      ]_vars

\* C10 witness: two loops have been started and the epoch start is the later
\* instant, which setStartTime has set.
C10_Witness ==
    /\ \A th \in LoopThreads : Running(th)
    /\ startTimeSet /\ profilerStartTime = 2

\* C11: a change of a mode's sleep interval does not change the length of a
\* sleep in progress; every sleep that begins lasts for the interval its mode
\* has at that moment; and a setter leaves the other mode's interval alone.
C11_IntervalChange ==
    [][/\ \A th \in LoopThreads :
             /\ (pc[th] = "sleep" /\ pc'[th] = "sleep")
                    => frame'[th].rtime = frame[th].rtime
             /\ (pc[th] # "sleep" /\ pc'[th] = "sleep")
                    => frame'[th].rtime =
                          IF frame'[th].mode = "average"
                          THEN defaultAverageTimerSleepDuration'
                          ELSE defaultCumulativeTimerSleepDuration'
       /\ setAverageTimerSleepDuration
             => defaultCumulativeTimerSleepDuration' = defaultCumulativeTimerSleepDuration
       /\ setCumulativeTimerSleepDuration
             => defaultAverageTimerSleepDuration' = defaultAverageTimerSleepDuration
      ]_vars

\* C11 witness: the cumulative loop sleeps for 500 ms, an interval it can
\* only have read after a setter assigned it, while the interval has been set
\* back to 1000 ms during this sleep and the average interval never changed
\* from the 1000 ms that the sleeping average loop uses.
C11_Witness ==
    \E c \in LoopThreads, a \in LoopThreads :
        /\ pc[c] = "sleep" /\ frame[c].mode = "cumulative" /\ frame[c].rtime = 500
        /\ defaultCumulativeTimerSleepDuration = 1000
        /\ pc[a] = "sleep" /\ frame[a].mode = "average" /\ frame[a].rtime = 1000
        /\ defaultAverageTimerSleepDuration = 1000

\* C12: average and cumulative storage never collide.  An add operation
\* changes the map of its own mode and leaves the other one as it is, and so
\* does a loop's clear; a report aggregates a vector of its own mode's map;
\* an average report passes the caller's label and a cumulative report the
\* label with the cumulative decoration, which is no caller's label; and the
\* average map is keyed by labels only, the cumulative map by decorated labels
\* only.
C12_StorageSeparate ==
    [][/\ \A th \in Threads :
             LET mode == frame[th].mode
                 other == IF mode = "average" THEN "cumulative" ELSE "average"
             IN /\ (pc[th] = "add_push" /\ pc'[th] = "idle")
                      => /\ MapAfter(other) = MapOf(other)
                         /\ MapAfter(mode) # MapOf(mode)
                /\ (pc[th] = "clear" /\ pc'[th] = "sleep")
                      => /\ MapAfter(other) = MapOf(other)
                         /\ MapAfter(mode) = EmptyMap
                /\ Reads(th)
                      => /\ KeyRead(th) \in DOMAIN MapOf(mode)
                         /\ KeyRead(th) \notin DOMAIN MapOf(other)
                         /\ mode = "average" =>
                                /\ KeyRead(th) \in Labels
                                /\ IsQuotient(ValueRead(th),
                                              SumOf(collectedAverageTimesMap[KeyRead(th)]),
                                              Len(collectedAverageTimesMap[KeyRead(th)]))
                         /\ mode = "cumulative" =>
                                /\ KeyRead(th) \notin Labels
                                /\ \E id \in Labels : KeyRead(th) = id \o " (cumulative)"
                                /\ ValueRead(th) =
                                      SumOf(collectedCumulativeTimesMap[KeyRead(th)])
       /\ DOMAIN collectedAverageTimesMap' \subseteq Labels
       /\ DOMAIN collectedCumulativeTimesMap' \cap Labels = {}
      ]_vars

\* C12 witness: the same caller label has a sample in each map, of different
\* durations, and an average and a cumulative report that run at the same
\* time have each reported it under their own key.
C12_Witness ==
    /\ At(collectedAverageTimesMap, "a") = <<2>>
    /\ At(collectedCumulativeTimesMap, "a (cumulative)") = <<-3>>
    /\ \E x \in Threads, y \in Threads :
          /\ pc[x] = "log_iter" /\ frame[x].out = <<InfoCall(profilerStartTime), ValueCall("a", 2)>>
          /\ pc[y] = "log_iter"
          /\ frame[y].out = <<InfoCall(profilerStartTime), ValueCall("a (cumulative)", -3)>>

\* C13: sink swap.  Every line that a formatter call writes (called by a
\* ScopeTimer, a manual report or a running loop) goes to the stream that the
\* sink slot holds when the call is made, hence to the new stream once the
\* slot has been reassigned; every call writes exactly one line; and the
\* lines written before stay with the stream they were written to, whatever
\* is assigned afterwards.
C13_SinkSwap ==
    [][\A th \in Threads :
          LET before == frame[th].sinks
              after == frame'[th].sinks
          IN /\ Len(after) = Len(frame'[th].out)
             /\ Len(after) >= Len(before) =>
                   /\ \A i \in 1..Len(before) : after[i] = before[i]
                   /\ \A i \in (Len(before) + 1)..Len(after) :
                         after[i] = defaultProfilerOutputStream
             /\ defaultProfilerOutputStream' # defaultProfilerOutputStream
                   => after = before
      ]_vars

\* C13 witness: a loop that was started before the swap has written the
\* epoch-info line of a label to std::cout and, the sink having been
\* reassigned in between, the value line to the file, and a ScopeTimer has
\* written its line to the file as well.
C13_Witness ==
    /\ defaultProfilerOutputStream = "file"
    /\ pc[Client] = "scope_out" /\ frame[Client].sinks = <<"file">>
    /\ \E th \in LoopThreads :
          pc[th] = "log_iter" /\ frame[th].sinks = <<"cout", "file">>

\* C14: no thread calls a formatter (and so writes to the sink) while it
\* holds the average or the cumulative Sample Set mutex.
C14_NoOutputUnderLock ==
    [][\A th \in Threads :
          Len(frame'[th].out) > Len(frame[th].out)
              => /\ collectedAverageTimesMapMutex # th
                 /\ collectedCumulativeTimesMapMutex # th]_vars

\* The keys that the value calls in out have been made for.
ValueKeys(out) == {out[i][2] : i \in {j \in 1..Len(out) : out[j][1] = "value"}}

\* C15: report cycle ordering.  Each iteration of a report cycle calls the
\* epoch-info formatter with the epoch start of that moment and next the value
\* formatter with a label of the map and its aggregate, for a label the cycle
\* has not reported before; a cycle makes no other call; and when it ends it
\* has made one pair of calls for every label of the map, hence none for an
\* empty map.
C15_ReportCycleOrder ==
    [][\A th \in Threads :
          LET mode == frame[th].mode
              old == frame[th].out
              new == frame'[th].out
              n == Len(frame[th].out)
          IN /\ Reads(th) =>
                   /\ Len(new) = n + 2
                   /\ \A i \in 1..n : new[i] = old[i]
                   /\ new[n + 1] = <<"info", "", profilerStartTime>>
                   /\ new[n + 2][1] = "value"
                   /\ new[n + 2][2] \in DOMAIN MapOf(mode)
                   /\ new[n + 2][2] \notin ValueKeys(old)
                   /\ LET vec == MapOf(mode)[new[n + 2][2]]
                      IN IF mode = "average"
                         THEN IsQuotient(new[n + 2][3], SumOf(vec), Len(vec))
                         ELSE new[n + 2][3] = SumOf(vec)
             /\ (pc[th] = "log_iter" /\ pc'[th] = "log_iter" /\ ~Reads(th))
                   => new = old
             /\ (pc[th] = "log_iter" /\ pc'[th] # "log_iter") =>
                   /\ ValueKeys(old) = DOMAIN MapOf(mode)
                   /\ n = 2 * Cardinality(DOMAIN MapOf(mode))
      ]_vars

\* C15 witness: a report cycle over a map with two labels has made its four
\* calls, while a manual report of the other mode has found its map empty.
C15_Witness ==
    \E x \in Threads, y \in Callers :
        /\ pc[x] = "log_iter" /\ frame[x].mode = "average"
        /\ DOMAIN collectedAverageTimesMap = {"a", "b"}
        /\ Len(frame[x].out) = 4
        /\ pc[y] = "log_iter" /\ frame[y].mode = "cumulative"
        /\ collectedCumulativeTimesMap = EmptyMap /\ frame[y].out = <<>>

\* map is before with exactly one sample, t, appended under key.
OneMore(before, map, key, t) ==
    /\ DOMAIN map = DOMAIN before \cup {key}
    /\ \A k \in DOMAIN before \ {key} : map[k] = before[k]
    /\ Len(map[key]) = (IF key \in DOMAIN before THEN Len(before[key]) ELSE 0) + 1
    /\ \A i \in 1..(Len(map[key]) - 1) : map[key][i] = before[key][i]
    /\ map[key][Len(map[key])] = t

\* C16: each scoped wrapper fires its action exactly once, at scope exit.
\* The constructor changes neither Sample Set and calls no formatter.  The
\* exit of an AverageTimer(L) scope adds one sample under L to the average
\* map and leaves the cumulative map alone; the exit of a CumulativeTimer(L)
\* scope adds one sample under L's cumulative key to the cumulative map and
\* leaves the average map alone; the exit of a ScopeTimer(L) scope makes one
\* value-formatter call for L and changes neither map.  After the exit the
\* wrapper is gone, so that it does not fire again.
C16_WrapperFiresOnce ==
    [][\A th \in Callers :
          LET w == frame[th].wrapper
              L == frame[th].id
              avgSame == collectedAverageTimesMap' = collectedAverageTimesMap
              cumSame == collectedCumulativeTimesMap' = collectedCumulativeTimesMap
          IN /\ (pc[th] = "idle" /\ pc'[th] = "scope")
                   => avgSame /\ cumSame /\ frame'[th].out = <<>>
             /\ (pc[th] = "scope" /\ pc'[th] # "scope") =>
                   /\ avgSame /\ cumSame
                   /\ w = "ScopeTimer" =>
                         /\ pc'[th] = "scope_out"
                         /\ Len(frame'[th].out) = 1
                         /\ frame'[th].out[1][1] = "value"
                         /\ frame'[th].out[1][2] = L
                   /\ w # "ScopeTimer" =>
                         /\ pc'[th] = "add_push"
                         /\ frame'[th].out = <<>>
             /\ (pc[th] = "add_push" /\ w # "none" /\ pc'[th] # "add_push") =>
                   /\ pc'[th] = "idle" /\ frame'[th].wrapper = "none"
                   /\ w = "AverageTimer" =>
                         /\ cumSame
                         /\ OneMore(collectedAverageTimesMap,
                                    collectedAverageTimesMap', L, frame[th].arg)
                   /\ w = "CumulativeTimer" =>
                         /\ avgSame
                         /\ OneMore(collectedCumulativeTimesMap,
                                    collectedCumulativeTimesMap',
                                    L \o " (cumulative)", frame[th].arg)
                   /\ w \in {"AverageTimer", "CumulativeTimer"}
             /\ (pc[th] = "scope_out" /\ pc'[th] # "scope_out") =>
                   /\ avgSame /\ cumSame
                   /\ pc'[th] = "idle" /\ frame'[th].wrapper = "none"
             /\ (pc[th] = "scope_out" /\ pc'[th] = "scope_out")
                   => frame'[th].out = frame[th].out
      ]_vars

\* C16 witness: an AverageTimer("a") scope and a CumulativeTimer("a") scope
\* have ended, each having left its one sample, and a ScopeTimer("b") scope of
\* one thread has made its call while the other thread is inside a scope.
C16_Witness ==
    /\ collectedAverageTimesMap = [k \in {"a"} |-> <<1>>]
    /\ collectedCumulativeTimesMap = [k \in {"a (cumulative)"} |-> <<-1>>]
    /\ \E x \in Callers, y \in Callers :
          /\ pc[x] = "scope_out" /\ frame[x].out = <<ValueCall("b", 0)>>
          /\ pc[y] = "scope" /\ frame[y].wrapper = "AverageTimer"

Reporting(mode) == {th \in Threads : pc[th] = "log_iter" /\ frame[th].mode = mode}

\* C18: report cycles of one mode are mutually exclusive.  At most one thread
\* is inside the report of a mode; it holds the mode's mutex; no insert into
\* the mode's map is under way meanwhile; and every step taken while it is
\* inside leaves the mode's map as it is and adds no call to the output of any
\* other report of the mode, so that the lines of two reports never interleave
\* and a report works on one state of the map from its first call to its last.
C18_ReportsExclusive ==
    [][\A m \in Modes :
          /\ Cardinality(Reporting(m)) <= 1
          /\ \A th \in Reporting(m) :
                /\ MutexOf(m) = th
                /\ \A o \in Threads \ {th} :
                      /\ ~(pc[o] = "add_push" /\ frame[o].mode = m)
                      /\ frame[o].mode = m => frame'[o].out = frame[o].out
                /\ pc'[th] = "log_iter" => MapAfter(m) = MapOf(m)
      ]_vars

\* C18 witness: a manual report of the average mode has reported the first of
\* two labels; the average loop, which has reported and is about to clear, and
\* the other caller can go on only when the report has returned.
C18_Witness ==
    \E th \in Callers, l \in LoopThreads :
        /\ pc[th] = "log_iter" /\ frame[th].mode = "average"
        /\ DOMAIN collectedAverageTimesMap = {"a", "b"}
        /\ Len(frame[th].out) = 2
        /\ pc[l] = "clear" /\ frame[l].mode = "average"
        /\ \A o \in Callers \ {th} : pc[o] = "idle"

\* The mutexes that thread th holds.
Holds(th) == {m \in Modes : MutexOf(m) = th}

\* Thread th is between the lock_guard of an operation of a mode and its
\* return: at the push_back of an insert or in the iteration of a report,
\* where it requests no mutex.
InCriticalSection(th, mode) ==
    pc[th] \in {"add_push", "log_iter"} /\ frame[th].mode = mode

\* C19: deadlock freedom of the lock discipline.  No thread holds both
\* mutexes; a thread that is about to request a mutex (a caller between
\* operations, a loop before its report or before its clear) or that has not
\* been started holds none, so that no mutex is requested by a thread that
\* holds one and every mutex is released before the operation returns or the
\* loop sleeps; and the thread that holds a mutex is inside the critical
\* section of its operation, where it waits for nothing, so that no set of
\* threads waits for each other.
C19_DeadlockFree ==
    /\ \A th \in Threads :
          /\ Cardinality(Holds(th)) <= 1
          /\ pc[th] \in {"idle", "sleep", "clear", "none", "threw"} => Holds(th) = {}
          /\ \A m \in Holds(th) : InCriticalSection(th, m)
    /\ \A m \in Modes : MutexOf(m) \in Threads \cup {NoThread}

\* C19 witness: each mutex is held by a thread of its own, and a loop and a
\* caller wait for the average mutex.
C19_Witness ==
    \E x \in Threads, y \in Threads, l \in LoopThreads, c \in Callers :
        /\ collectedAverageTimesMapMutex = x /\ pc[x] = "log_iter"
        /\ collectedCumulativeTimesMapMutex = y /\ pc[y] = "add_push"
        /\ pc[l] = "clear" /\ frame[l].mode = "average"
        /\ pc[c] = "idle"

\* C20: the epoch start is changed only by setStartTime and by a start
\* operation called while no epoch start has been set.  No step of an insert,
\* of a report or of a loop changes it, and every iteration of a report passes
\* the epoch start as it is at that moment to the epoch-info formatter: the
\* same one cycle after cycle, until setStartTime is called.
C20_EpochFrame ==
    [][/\ profilerStartTime' # profilerStartTime =>
             \/ setStartTime
             \/ /\ ~startTimeSet
                /\ startAverageLoggingThread \/ startCumulativeLoggingThread
       /\ \A th \in Threads :
             /\ (pc[th] # "none" /\ (pc'[th] # pc[th] \/ frame'[th] # frame[th]))
                   => profilerStartTime' = profilerStartTime
             /\ Reads(th) =>
                   frame'[th].out[Len(frame[th].out) + 1] = <<"info", "", profilerStartTime>>
      ]_vars

\* C20 witness: a report cycle that comes after an earlier cycle of its mode
\* (which has read the samples of a label this one has yet to reach) passes
\* the epoch start that was set at instant 1, while the cumulative loop runs.
C20_Witness ==
    \E th \in Threads, l \in LoopThreads :
        /\ pc[th] = "log_iter" /\ frame[th].mode = "average" /\ frame[th].pos = 1
        /\ frame[th].out[1] = <<"info", "", 1>>
        /\ profilerStartTime = 1
        /\ history["b"] # <<>> /\ \A i \in 1..Len(history["b"]) : history["b"][i].seen
        /\ pc[l] = "sleep" /\ frame[l].mode = "cumulative"

====
